---------------------------- MODULE Spec2Model ----------------------------
(***************************************************************************)
(* plotbench.py: read a file of Go benchmark output, split every line on   *)
(* one of two regular expressions, collect (size, time) pairs for the      *)
(* brute-force baseline and for every "<name> radius <r>" variant, and     *)
(* hand the series to the plotting library.                                *)
(*                                                                         *)
(* A line is a sequence of tokens.  A token is a piece of text that the    *)
(* two patterns can only treat as a whole: the literals of the patterns    *)
(* ("Benchmark", "BruteForce", "Lq", "Radius", "-"), short words,          *)
(* single digits, a blank and "/".  No literal of a pattern can begin or   *)
(* end inside one of these tokens or straddle two of them, so matching     *)
(* over tokens is matching over the characters of the joined text.         *)
(* A recorded string (a size, a time, a label) is a sequence of tokens     *)
(* too; the empty string is << >>.                                         *)
(***************************************************************************)
EXTENDS Integers, Sequences, FiniteSets, TLC

\* Largest number of lines in the input file.
MaxLines == 2

\* Largest value of len(sys.argv).
MaxArgc == 2

-----------------------------------------------------------------------------
(* character classes of the re module *)

\* \d
Digit == {"1", "2", "8"}

\* \w : every token made of letters and digits only
Word == {"Benchmark", "BruteForce", "Lq", "Radius", "F", "G", "ns"} \cup Digit

\* \s
Space == {" "}

\* s[a:b] of Python for the 1-based positions a <= b
Slice(s, a, b) == SubSeq(s, a, b - 1)

\* X* at position i: a greedy run of X; the position after the run
Star(s, i, X) ==
    CHOOSE j \in i..(Len(s) + 1) :
        /\ \A k \in i..(j - 1) : s[k] \in X
        /\ j = Len(s) + 1 \/ s[j] \notin X

\* the result of a failed match
NoMatch == [end |-> 0, groups |-> << >>]

\* -(?:\d)*(?:\s)*(\w*)(?:\s)*(\w*) at position p, after the groups g.
\* Every starred item takes its longest run: nothing after it can fail.
Fields(s, p, g) ==
    IF p > Len(s) \/ s[p] # "-" THEN NoMatch
    ELSE LET d  == Star(s, p + 1, Digit)
             a  == Star(s, d, Space)
             b  == Star(s, a, Word)
             c  == Star(s, b, Space)
             e  == Star(s, c, Word)
         IN  [end |-> e, groups |-> g \o << Slice(s, a, b), Slice(s, c, e) >>]

\* patbf.match(s, i): BenchmarkBruteForce(\d*)-(?:\d)*(?:\s)*(\w*)(?:\s)*(\w*)
patbf(s, i) ==
    IF /\ i + 1 <= Len(s)
       /\ s[i] = "Benchmark"
       /\ s[i + 1] = "BruteForce"
    THEN LET d == Star(s, i + 2, Digit)
         IN  Fields(s, d, << Slice(s, i + 2, d) >>)
    ELSE NoMatch

\* Lq(\d*)Radius(\d*)-... with "Lq" at position n, the name being s[i+1:n]
LqAt(s, i, n) ==
    LET d1 == Star(s, n + 1, Digit)
    IN  IF d1 > Len(s) \/ s[d1] # "Radius" THEN NoMatch
        ELSE LET d2 == Star(s, d1 + 1, Digit)
             IN  Fields(s, d2, << Slice(s, i + 1, n),
                                  Slice(s, n + 1, d1),
                                  Slice(s, d1 + 1, d2) >>)

\* pat.match(s, i): Benchmark(\w*)Lq(\d*)Radius(\d*)-(?:\d)*(?:\s)*(\w*)(?:\s)*(\w*)
\* (\w*) takes the longest run of word characters and gives characters
\* back one at a time until the rest of the pattern matches: the name ends
\* at the last "Lq" of the run from which the rest matches.
pat(s, i) ==
    IF i <= Len(s) /\ s[i] = "Benchmark"
    THEN LET m  == Star(s, i + 1, Word)
             ns == {n \in (i + 1)..(m - 1) :
                        s[n] = "Lq" /\ LqAt(s, i, n).end > 0}
         IN  IF ns = {} THEN NoMatch
             ELSE LqAt(s, i, CHOOSE n \in ns : \A k \in ns : k <= n)
    ELSE NoMatch

\* patbf.split(s[pos:]): the text before each match, the groups of the
\* match, and at the end the text after the last match
RECURSIVE patbf_split(_, _)
patbf_split(s, pos) ==
    LET starts == {i \in pos..Len(s) : patbf(s, i).end > 0}
    IN  IF starts = {} THEN << Slice(s, pos, Len(s) + 1) >>
        ELSE LET i == CHOOSE x \in starts : \A y \in starts : x <= y
                 m == patbf(s, i)
             IN  << Slice(s, pos, i) >> \o m.groups \o patbf_split(s, m.end)

\* pat.split(s[pos:])
RECURSIVE pat_split(_, _)
pat_split(s, pos) ==
    LET starts == {i \in pos..Len(s) : pat(s, i).end > 0}
    IN  IF starts = {} THEN << Slice(s, pos, Len(s) + 1) >>
        ELSE LET i == CHOOSE x \in starts : \A y \in starts : x <= y
                 m == pat(s, i)
             IN  << Slice(s, pos, i) >> \o m.groups \o pat_split(s, m.end)

-----------------------------------------------------------------------------
(* the input: the lines of the benchmark file *)

\* "  ns/op", the end of a line of the Go benchmark harness
NsOp == << " ", "ns", "/", "F" >>

\* a line shaped BenchmarkBruteForce<size>-8 <w1> <w2>
BfLine(size, w1, w2) ==
    << "Benchmark", "BruteForce" >> \o size \o << "-", "8", " " >>
        \o w1 \o << " " >> \o w2

\* a line shaped Benchmark<name>Lq<size>Radius<radius>-8 <w1> <w2>
LqLine(name, size, radius, w1, w2) ==
    << "Benchmark" >> \o name \o << "Lq" >> \o size \o << "Radius" >> \o radius
        \o << "-", "8", " " >> \o w1 \o << " " >> \o w2

\* lines that mention BruteForce
BfLines ==
    { BfLine(size, w[1], w[2]) :
        size \in { << >>, << "1" >>, << "2" >> },
        w \in { << << "1" >>, << "2" >> >>, << << "2" >>, << "ns" >> >> } }
    \cup
    { BfLine(<< "1", "2" >>, << "2", "1" >>, << "1" >>),
      BfLine(<< "1" >>, << "2" >>, << "1" >>) \o NsOp,
      BfLine(<< "1" >>, << "1" >>, << "2" >>) \o << " " >>
          \o BfLine(<< "2" >>, << "2" >>, << "1" >>),
      << "Benchmark", "BruteForce", "1", "-" >>,
      << "Benchmark", "BruteForce", "1" >>,
      << "F", " ", "BruteForce" >>,
      LqLine(<< "BruteForce" >>, << "1" >>, << "2" >>, << "1" >>, << "2" >>) }

\* lines that do not mention BruteForce
LqLines ==
    { LqLine(<< "F" >>, size, radius, << "1" >>, << "2" >>) :
        size \in { << "1" >>, << "2" >> }, radius \in { << "1" >>, << "2" >> } }
    \cup
    { LqLine(<< "G" >>, size, radius, << "2" >>, << "ns" >>) :
        size \in { << "1" >>, << "2" >> }, radius \in { << "1" >>, << "2" >> } }
    \cup
    { LqLine(<< "F" >>, << >>, << "1" >>, << "1" >>, << "2" >>),
      LqLine(<< "F" >>, << "1" >>, << >>, << "1" >>, << "2" >>),
      LqLine(<< >>, << "1" >>, << "1" >>, << "1" >>, << "2" >>),
      LqLine(<< "F", "Lq" >>, << "1" >>, << "2" >>, << "1" >>, << "2" >>),
      LqLine(<< "F", "1" >>, << "8" >>, << "2" >>, << "1" >>, << "2" >>),
      LqLine(<< "F" >>, << "8" >>, << "1", "2" >>, << "1" >>, << "2" >>),
      << "G", " " >> \o LqLine(<< "F" >>, << "1" >>, << "1" >>, << "8" >>, << "1" >>),
      LqLine(<< "F" >>, << "2" >>, << "1" >>, << "2" >>, << "1" >>) \o NsOp,
      LqLine(<< "F" >>, << "1" >>, << "1" >>, << "1" >>, << "2" >>) \o << " " >>
          \o LqLine(<< "G" >>, << "2" >>, << "2" >>, << "2" >>, << "1" >>),
      << "Benchmark", "F", "Lq", "1", "Radius", "2", "-" >>,
      << "Benchmark", "F", "Lq", "1", "Radius", "2" >>,
      << "Benchmark", "F", "Lq", "1" >>,
      << "F", " ", "G" >>,
      << >> }

\* every line a file may hold
Lines == BfLines \cup LqLines

\* every file: at most MaxLines lines
Files == UNION { [1..n -> Lines] : n \in 0..MaxLines }

-----------------------------------------------------------------------------
(* the program *)

VARIABLES
    argc,     \* len(sys.argv)
    pc,       \* "start", "loop", "done", "exit" (sys.exit), "error" (traceback)
    lines,    \* the lines of the file, without their newline
    i,        \* the number of lines the loop has gone through
    bf,       \* [sizes, times] of the brute-force runs
    lq,       \* label -> [sizes, times]; a dict, which has no order of its own
    legend,   \* the legend given to plt.legend
    curves,   \* the (x, y) pairs given to plt.loglog, in call order
    out,      \* what was printed on standard output
    status,   \* the exit status of the process, -1 while it runs
    opened,   \* the benchmark file was opened
    saved,    \* benchmark.png was written
    shown     \* the window was shown

vars == << argc, pc, lines, i, bf, lq, legend, curves, out, status,
           opened, saved, shown >>

\* NoArgument with the bound off by one: len(sys.argv) < 1
NoArgumentOffByOne(n) == n < 1

\* len(sys.argv) < 2
NoArgument(n) == n < 2

\* 'BruteForce' in line
IsBruteForce(line) == \E k \in 1..Len(line) : line[k] = "BruteForce"

\* v[k] of Python is defined
Has(v, k) == k < Len(v)

\* v[k] of Python
At(v, k) == v[k + 1]

\* BfAppend taking the time from v[2], the first word after the suffix
BfAppendFirstWord(b, v) ==
    IF ~Has(v, 1) THEN [bf |-> b, raised |-> TRUE]
    ELSE LET b1 == << Append(b[1], At(v, 1)), b[2] >>
         IN  IF ~Has(v, 2) THEN [bf |-> b1, raised |-> TRUE]
             ELSE [bf |-> << b1[1], Append(b1[2], At(v, 2)) >>, raised |-> FALSE]

\* BfAppend taking the time from v[5], the index of the variant branch
BfAppendFifth(b, v) ==
    IF ~Has(v, 1) THEN [bf |-> b, raised |-> TRUE]
    ELSE LET b1 == << Append(b[1], At(v, 1)), b[2] >>
         IN  IF ~Has(v, 5) THEN [bf |-> b1, raised |-> TRUE]
             ELSE [bf |-> << b1[1], Append(b1[2], At(v, 5)) >>, raised |-> FALSE]

\* BfAppend with both indices one too small: v[0] and v[2]
BfAppendOffByOne(b, v) ==
    IF ~Has(v, 0) THEN [bf |-> b, raised |-> TRUE]
    ELSE LET b1 == << Append(b[1], At(v, 0)), b[2] >>
         IN  IF ~Has(v, 2) THEN [bf |-> b1, raised |-> TRUE]
             ELSE [bf |-> << b1[1], Append(b1[2], At(v, 2)) >>, raised |-> FALSE]

\* bf[0].append(v[1]); bf[1].append(v[3]) : an index out of range raises
\* IndexError and leaves what was appended before it
BfAppend(b, v) ==
    IF ~Has(v, 1) THEN [bf |-> b, raised |-> TRUE]
    ELSE LET b1 == << Append(b[1], At(v, 1)), b[2] >>
         IN  IF ~Has(v, 3) THEN [bf |-> b1, raised |-> TRUE]
             ELSE [bf |-> << b1[1], Append(b1[2], At(v, 3)) >>, raised |-> FALSE]

\* '{} radius {}'.format(name, radius)
Title(name, radius) == name \o << " radius " >> \o radius

\* lq[title] of a defaultdict(lambda: [[], []]): a missing key is created
Lookup(d, title) ==
    IF title \in DOMAIN d THEN d
    ELSE [t \in DOMAIN d \cup {title} |->
             IF t = title THEN << << >>, << >> >> ELSE d[t]]

\* LqAppend storing the new pair in place of the series
LqAppendReplace(d, title, size, time) ==
    [t \in DOMAIN d \cup {title} |->
        IF t = title THEN << << size >>, << time >> >> ELSE d[t]]

\* lq[title][0].append(size); lq[title][1].append(time)
LqAppend(d, title, size, time) ==
    LET d1 == Lookup(d, title)
        d2 == [d1 EXCEPT ![title] = << Append(@[1], size), @[2] >>]
        d3 == Lookup(d2, title)
    IN  [d3 EXCEPT ![title] = << @[1], Append(@[2], time) >>]

\* Accepted with >= in place of ==
AcceptedAtLeast(v) == Len(v) >= 7

\* len(v) == 7
Accepted(v) == Len(v) = 7

\* LqBranch building the label from v[2], the Lq value, not from v[3]
LqBranchSizeLabel(d, v) ==
    IF Accepted(v)
    THEN LqAppend(d, Title(At(v, 1), At(v, 2)), At(v, 2), At(v, 5))
    ELSE d

\* the else branch of the loop body
LqBranch(d, v) ==
    IF Accepted(v)
    THEN LqAppend(d, Title(At(v, 1), At(v, 3)), At(v, 2), At(v, 5))
    ELSE d

\* the orders in which lq.iteritems() of Python 2 may yield the keys of d:
\* a dict yields every key once, in an order the language does not define
iteritems(d) ==
    {o \in [1..Cardinality(DOMAIN d) -> DOMAIN d] :
        \A a, b \in DOMAIN o : a # b => o[a] # o[b]}

\* Legend with the baseline appended after the loop over the labels
LegendLabelsFirst(order) == order \o << << "Brute Force" >> >>

\* legend.append('Brute Force'), then legend.append(label) for every label
Legend(order) == << << "Brute Force" >> >> \o order

\* plt.loglog(bf[0], bf[1]), then plt.loglog(lqb[0], lqb[1]) for every label
Curves(b, d, order) == << b >> \o [k \in DOMAIN order |-> d[order[k]]]

Init ==
    /\ argc \in 1..MaxArgc
    /\ pc = "start"
    /\ lines = << >>
    /\ i = 0
    /\ bf = << >>
    /\ lq = << >>
    /\ legend = << >>
    /\ curves = << >>
    /\ out = << >>
    /\ status = -1
    /\ opened = FALSE
    /\ saved = FALSE
    /\ shown = FALSE

\* no file argument: print the message and sys.exit(1)
Usage ==
    /\ pc = "start"
    /\ NoArgument(argc)
    /\ out' = Append(out, "need a benchmark to plot")
    /\ status' = 1
    /\ pc' = "exit"
    /\ UNCHANGED << argc, lines, i, bf, lq, legend, curves, opened, saved, shown >>

\* open(sys.argv[1]) fails: IOError, a traceback and exit status 1
OpenFails ==
    /\ pc = "start"
    /\ ~NoArgument(argc)
    /\ status' = 1
    /\ pc' = "error"
    /\ UNCHANGED << argc, lines, i, bf, lq, legend, curves, out, opened, saved, shown >>

\* compile the patterns, read the lines, build the empty aggregates
ReadLines ==
    /\ pc = "start"
    /\ ~NoArgument(argc)
    /\ \E f \in Files : lines' = f
    /\ opened' = TRUE
    /\ bf' = << << >>, << >> >>
    /\ lq' = << >>
    /\ pc' = "loop"
    /\ UNCHANGED << argc, i, legend, curves, out, status, saved, shown >>

\* one pass of the loop body on a line that mentions BruteForce
BruteForceLine ==
    /\ pc = "loop"
    /\ i < Len(lines)
    /\ IsBruteForce(lines[i + 1])
    /\ LET r == BfAppend(bf, patbf_split(lines[i + 1], 1))
       IN  /\ bf' = r.bf
           /\ IF r.raised
              THEN pc' = "error" /\ status' = 1 /\ i' = i
              ELSE pc' = "loop" /\ status' = status /\ i' = i + 1
    /\ UNCHANGED << argc, lines, lq, legend, curves, out, opened, saved, shown >>

\* one pass of the loop body on any other line
VariantLine ==
    /\ pc = "loop"
    /\ i < Len(lines)
    /\ ~IsBruteForce(lines[i + 1])
    /\ lq' = LqBranch(lq, pat_split(lines[i + 1], 1))
    /\ i' = i + 1
    /\ UNCHANGED << argc, pc, lines, bf, legend, curves, out, status,
                    opened, saved, shown >>

\* after the loop: plot every series, build the legend, save and show.
\* The plotting library is taken to record what it is given.
Plot ==
    /\ pc = "loop"
    /\ i = Len(lines)
    /\ \E order \in iteritems(lq) :
          /\ legend' = Legend(order)
          /\ curves' = Curves(bf, lq, order)
    /\ saved' = TRUE
    /\ shown' = TRUE
    /\ status' = 0
    /\ pc' = "done"
    /\ UNCHANGED << argc, lines, i, bf, lq, out, opened >>

Next ==
    \/ Usage
    \/ OpenFails
    \/ ReadLines
    \/ BruteForceLine
    \/ VariantLine
    \/ Plot

Spec == Init /\ [][Next]_vars

-----------------------------------------------------------------------------
(* the shapes of the input lines, read off the text of a line *)

\* the position of the first "-" of a line, 0 if it has none
Dash(line) ==
    IF \E k \in 1..Len(line) : line[k] = "-"
    THEN CHOOSE k \in 1..Len(line) :
             line[k] = "-" /\ \A j \in 1..(k - 1) : line[j] # "-"
    ELSE 0

\* s[a:b] is a non-empty string of decimal digits
IsNumber(s) == s # << >> /\ \A k \in 1..Len(s) : s[k] \in Digit

\* where <word1> and <word2> lie after the "-<digits>" suffix at Dash(line)
FieldsAt(line) ==
    LET d == Star(line, Dash(line) + 1, Digit)
        a == Star(line, d, Space)
        b == Star(line, a, Word)
        c == Star(line, b, Space)
        e == Star(line, c, Word)
    IN  << d, a, b, c, e >>

\* -<digits> <word1> <word2> with nothing missing, and no second benchmark
\* result on the line after it
HasFields(line) ==
    LET f == FieldsAt(line)
    IN  /\ Dash(line) > 0
        /\ Dash(line) + 1 < f[1]
        /\ f[1] < f[2] /\ f[2] < f[3] /\ f[3] < f[4] /\ f[4] < f[5]
        /\ \A k \in f[5]..Len(line) : line[k] # "Benchmark"

\* <word1>
Word1(line) == Slice(line, FieldsAt(line)[2], FieldsAt(line)[3])

\* <word2>
Word2(line) == Slice(line, FieldsAt(line)[4], FieldsAt(line)[5])

\* BenchmarkBruteForce<digits>-<digits> <word1> <word2>
WellFormedBf(line) ==
    /\ HasFields(line)
    /\ Dash(line) > 3
    /\ line[1] = "Benchmark"
    /\ line[2] = "BruteForce"
    /\ IsNumber(Slice(line, 3, Dash(line)))

\* the <<n, r>> with Benchmark<name>Lq<digits>Radius<digits>-..., "Lq" at
\* position n and "Radius" at position r
LqParses(line) ==
    {nr \in (3..Len(line)) \X (3..Len(line)) :
        /\ nr[1] < nr[2] /\ nr[2] < Dash(line)
        /\ line[1] = "Benchmark"
        /\ line[nr[1]] = "Lq"
        /\ line[nr[2]] = "Radius"
        /\ \A k \in 2..(nr[1] - 1) : line[k] \in Word
        /\ IsNumber(Slice(line, nr[1] + 1, nr[2]))
        /\ IsNumber(Slice(line, nr[2] + 1, Dash(line)))}

\* Benchmark<name>Lq<digits>Radius<digits>-<digits> <word1> <word2>
WellFormedLq(line) == HasFields(line) /\ LqParses(line) # {}

\* the labels <name> radius <radius> of a well-formed variant line
LabelsOf(line) ==
    {Slice(line, 2, nr[1]) \o << " radius " >> \o Slice(line, nr[2] + 1, Dash(line)) :
        nr \in LqParses(line)}

\* the last line the loop went through without raising
Current == lines[i]

\* a line has been gone through
Went == pc \in {"loop", "done", "error"} /\ i > 0

-----------------------------------------------------------------------------
(* C1 *)

\* C1 as stated: after a well-formed line of either shape (one benchmark
\* result on the line) has been gone through, the last time of its series is <word1>, the first word after
\* the -<digits> suffix.
C1_TimeIsFirstWord ==
    Went =>
        /\ WellFormedBf(Current) => bf[2][Len(bf[2])] = Word1(Current)
        /\ WellFormedLq(Current) =>
              \A t \in LabelsOf(Current) :
                  t \in DOMAIN lq /\ lq[t][2][Len(lq[t][2])] = Word1(Current)

\* C1 as amended: after a well-formed line of either shape (one benchmark
\* result on the line) has been gone through without raising, the last time of its series is <word2>, the
\* second word after the -<digits> suffix.
C1_TimeIsSecondWord ==
    Went =>
        /\ WellFormedBf(Current) =>
              /\ bf[2] # << >>
              /\ bf[2][Len(bf[2])] = Word2(Current)
        /\ WellFormedLq(Current) /\ ~IsBruteForce(Current) =>
              \A t \in LabelsOf(Current) :
                  /\ t \in DOMAIN lq
                  /\ lq[t][2] # << >>
                  /\ lq[t][2][Len(lq[t][2])] = Word2(Current)

\* C1 witness: a well-formed brute-force line and then a well-formed variant
\* line, each with two different words, have both been gone through.
C1_Witness ==
    /\ pc = "loop" /\ i = 2
    /\ WellFormedBf(lines[1]) /\ Word1(lines[1]) # Word2(lines[1])
    /\ WellFormedLq(lines[2]) /\ Word1(lines[2]) # Word2(lines[2])
    /\ bf[2] = << Word2(lines[1]) >>
    /\ \E t \in DOMAIN lq : lq[t][2] = << Word2(lines[2]) >>

-----------------------------------------------------------------------------
(* C2 *)

\* C2 as stated: the loop over the lines raises no error, whatever the
\* lines are.
C2_LoopNeverRaises == ~(pc = "error" /\ opened)

-----------------------------------------------------------------------------
(* C3 *)

\* C3: once the aggregates exist, and also in the state an IndexError leaves
\* behind, the brute-force sizes and times have the same length and so have
\* the sizes and times under every key of lq.
C3_SameLength ==
    opened =>
        /\ Len(bf[1]) = Len(bf[2])
        /\ \A t \in DOMAIN lq : Len(lq[t][1]) = Len(lq[t][2])

\* C3 witness: the loop recorded a brute-force pair and then a line mentioning
\* BruteForce aborted the run.
C3_Witness ==
    /\ pc = "error" /\ opened
    /\ i = 1
    /\ Len(bf[1]) = 1 /\ Len(bf[2]) = 1

-----------------------------------------------------------------------------
(* C4 *)

\* the line the loop goes through next
Line == lines[i + 1]

\* the loop is about to go through a line
AtLine == pc = "loop" /\ i < Len(lines)

\* C4: a step over an accepted variant line with name N, Lq value S and
\* radius R changes the series labelled N + " radius " + R and nothing else:
\* S becomes the last size of that series, every other series and bf stay as
\* they are; an earlier accepted line with the same N and R has its series
\* extended, one that differs in N or in R has its series left alone.
C4_OneSeriesPerNameAndRadius ==
    [][ (AtLine /\ ~IsBruteForce(Line) /\ Len(pat_split(Line, 1)) = 7) =>
          LET v     == pat_split(Line, 1)
              N     == v[2]
              S     == v[3]
              R     == v[4]
              label == N \o << " radius " >> \o R
              old   == IF label \in DOMAIN lq THEN lq[label][1] ELSE << >>
          IN  /\ DOMAIN lq' = DOMAIN lq \cup {label}
              /\ lq'[label][1] = Append(old, S)
              /\ \A t \in DOMAIN lq : t # label => lq'[t] = lq[t]
              /\ bf' = bf
              /\ \A j \in 1..i :
                    LET w == pat_split(lines[j], 1)
                    IN  (~IsBruteForce(lines[j]) /\ Len(w) = 7) =>
                           LET lj == w[2] \o << " radius " >> \o w[4]
                           IN  IF w[2] = N /\ w[4] = R
                               THEN lq'[lj][1] = Append(lq[lj][1], S)
                               ELSE lq'[lj] = lq[lj]
      ]_vars

\* C4 witness: two accepted variant lines with the same name and radius and
\* different Lq values have extended one series, the only one there is.
C4_Witness ==
    /\ pc = "loop" /\ i = 2
    /\ \E t \in DOMAIN lq :
          /\ DOMAIN lq = {t}
          /\ Len(lq[t][1]) = 2
          /\ lq[t][1][1] # lq[t][1][2]

-----------------------------------------------------------------------------
(* C5 *)

\* x is a piece of the text of line
IsPieceOf(line, x) ==
    \E a \in 1..(Len(line) + 1) : \E b \in a..(Len(line) + 1) :
        x = Slice(line, a, b)

\* the series new is the series old, or old with one (size, time) pair of
\* pieces of line added at its end
Grows(old, new, line) ==
    \/ new = old
    \/ /\ Len(new[1]) = Len(old[1]) + 1
       /\ Len(new[2]) = Len(old[2]) + 1
       /\ SubSeq(new[1], 1, Len(old[1])) = old[1]
       /\ SubSeq(new[2], 1, Len(old[2])) = old[2]
       /\ IsPieceOf(line, new[1][Len(new[1])])
       /\ IsPieceOf(line, new[2][Len(new[2])])

\* C5: a step over a line leaves each series as it is or adds one pair taken
\* from that line at its end, a new series starts with one such pair, and the
\* steps that are not over a line change no series; nothing is deduplicated:
\* the brute-force series holds one pair for every brute-force line gone
\* through.
C5_AppendOnly ==
    /\ [](opened => Len(bf[1]) = Cardinality({k \in 1..i : IsBruteForce(lines[k])}))
    /\ [][ /\ AtLine =>
                /\ Grows(bf, bf', Line)
                /\ \A t \in DOMAIN lq : t \in DOMAIN lq' /\ Grows(lq[t], lq'[t], Line)
                /\ \A t \in DOMAIN lq' \ DOMAIN lq :
                      /\ Len(lq'[t][1]) = 1
                      /\ Grows(<< << >>, << >> >>, lq'[t], Line)
           /\ (opened /\ ~AtLine) => (bf' = bf /\ lq' = lq)
         ]_vars

\* C5 witness: two brute-force lines with the same size and different times
\* were read; the size is recorded twice, the times in the order of the lines.
C5_Witness ==
    /\ pc = "loop" /\ i = 2
    /\ Len(bf[1]) = 2
    /\ bf[1][1] = bf[1][2]
    /\ bf[2][1] # bf[2][2]
    /\ bf[2] = << Word2(lines[1]), Word2(lines[2]) >>

-----------------------------------------------------------------------------
(* C6 *)

\* neither pattern matches anywhere in line
Neither(line) ==
    \A p \in 1..Len(line) : patbf(line, p).end = 0 /\ pat(line, p).end = 0

-----------------------------------------------------------------------------
(* C7 *)

\* the labels of the accepted variant lines among the first k lines, each
\* once, in the order in which they first occur
RECURSIVE FirstSeen(_, _)
FirstSeen(ls, k) ==
    IF k = 0 THEN << >>
    ELSE LET prev == FirstSeen(ls, k - 1)
             v    == pat_split(ls[k], 1)
             t    == v[2] \o << " radius " >> \o v[4]
         IN  IF /\ ~IsBruteForce(ls[k])
                /\ Len(v) = 7
                /\ \A j \in 1..Len(prev) : prev[j] # t
             THEN Append(prev, t)
             ELSE prev

\* C7 as stated: the legend is "Brute Force" followed by the variant labels
\* in the order in which they were first seen in the input.
C7_LegendInFirstSeenOrder ==
    pc = "done" => legend = << << "Brute Force" >> >> \o FirstSeen(lines, Len(lines))

\* C7 as amended: the legend is "Brute Force" first, also when no brute-force
\* line was read, followed by every distinct variant label exactly once, in
\* the order in which the dict yields them; the curves are plotted in that
\* same order, the k-th legend entry naming the k-th curve.
C7_LegendNamesCurves ==
    pc = "done" =>
        LET seen == FirstSeen(lines, Len(lines))
        IN  /\ legend[1] = << "Brute Force" >>
            /\ Len(legend) = 1 + Len(seen)
            /\ {legend[k] : k \in 2..Len(legend)} = {seen[k] : k \in 1..Len(seen)}
            /\ Len(curves) = Len(legend)
            /\ curves[1] = bf
            /\ \A k \in 2..Len(legend) : curves[k] = lq[legend[k]]

\* C7 witness: no brute-force line and two variant labels were read, and the
\* legend names the label seen second before the label seen first.
C7_Witness ==
    /\ pc = "done"
    /\ bf = << << >>, << >> >>
    /\ Len(legend) = 3
    /\ legend[1] = << "Brute Force" >>
    /\ legend[2] = FirstSeen(lines, Len(lines))[2]
    /\ legend[3] = FirstSeen(lines, Len(lines))[1]

-----------------------------------------------------------------------------
(* C8 *)

\* C8: started without a file argument, the program prints the message and
\* exits with status 1, having opened no file, built no aggregate, plotted,
\* saved and shown nothing; started with one, it never takes that exit and
\* prints nothing.
C8_UsageExit ==
    /\ (argc < 2 /\ pc # "start") =>
          /\ pc = "exit"
          /\ status = 1
          /\ out = << "need a benchmark to plot" >>
          /\ ~opened /\ ~saved /\ ~shown
          /\ bf = << >> /\ lq = << >> /\ curves = << >> /\ legend = << >>
    /\ argc >= 2 => (pc # "exit" /\ out = << >>)

\* C8 witness: the program, started without an argument, has exited.
C8_Witness == argc = 1 /\ pc = "exit" /\ status = 1

-----------------------------------------------------------------------------
(* C9 *)

\* how many times pat matches in s[pos:], scanning from left to right and
\* going on after each match
RECURSIVE MatchCount(_, _)
MatchCount(s, pos) ==
    LET starts == {k \in pos..Len(s) : pat(s, k).end > 0}
    IN  IF starts = {} THEN 0
        ELSE 1 + MatchCount(s, pat(s, CHOOSE x \in starts : \A y \in starts : x <= y).end)

\* the number of (size, time) pairs under the keys ks of d
RECURSIVE Pairs(_, _)
Pairs(d, ks) ==
    IF ks = {} THEN 0
    ELSE LET t == CHOOSE x \in ks : TRUE
         IN  Len(d[t][1]) + Pairs(d, ks \ {t})

\* C9: a step over a line without "BruteForce" changes lq if and only if pat
\* matches exactly once in the line, which is when the split has 7 pieces;
\* then it adds one pair, and never more than one.
C9_ExactlyOneMatch ==
    [][ (AtLine /\ ~IsBruteForce(Line)) =>
          LET n == MatchCount(Line, 1)
          IN  /\ (lq' # lq) <=> (n = 1)
              /\ (Len(pat_split(Line, 1)) = 7) <=> (n = 1)
              /\ Pairs(lq', DOMAIN lq') = Pairs(lq, DOMAIN lq) + (IF n = 1 THEN 1 ELSE 0)
      ]_vars

\* C9 witness: a line with one match and then a line with two matches have
\* been gone through, and lq holds the one pair of the first line.
C9_Witness ==
    /\ pc = "loop" /\ i = 2
    /\ ~IsBruteForce(lines[1]) /\ MatchCount(lines[1], 1) = 1
    /\ ~IsBruteForce(lines[2]) /\ MatchCount(lines[2], 1) = 2
    /\ Pairs(lq, DOMAIN lq) = 1

-----------------------------------------------------------------------------
(* C10 *)

\* the radius of a label: what follows " radius "
RadiusOf(t) ==
    LET p == CHOOSE k \in 1..Len(t) : t[k] = " radius "
    IN  Slice(t, p + 1, Len(t) + 1)

\* C10 as stated: every recorded size, brute-force or variant, is a non-empty
\* string of decimal digits, and so is the radius of every label.
C10_SizesAndRadiiAreNumbers ==
    opened =>
        /\ \A k \in 1..Len(bf[1]) : IsNumber(bf[1][k])
        /\ \A t \in DOMAIN lq :
              /\ IsNumber(RadiusOf(t))
              /\ \A k \in 1..Len(lq[t][1]) : IsNumber(lq[t][1][k])

=============================================================================
